---------------------------- MODULE Spec2Model ----------------------------
(***************************************************************************)
(* Bulk user-import workflow of the JAIRO Cloud Groups Manager web client. *)
(*                                                                         *)
(* The model follows one browser session on the bulk page                  *)
(* (pages/bulk/index.vue): the upload step (BulkUploadStep.vue), the       *)
(* validation step (BulkValidationStep.vue, composable useValidation of    *)
(* useBulk.ts) and the result step (BulkResultStep.vue).  Every component  *)
(* handler is one action; every point where a handler awaits (a request in *)
(* flight, a timer) is a position of its own, so that other handlers and   *)
(* the teardown of the component interleave with it as they do on the      *)
(* browser's event loop.  The backend is the environment: it answers each  *)
(* request with any response its REST contract allows.                     *)
(***************************************************************************)
EXTENDS Integers, Sequences, FiniteSets, TLC

(***************************************************************************)
(* Bounds of the model.                                                    *)
(***************************************************************************)
\* largest configured polling.maxAttempts that is explored (1 .. bound)
MaxAttemptsBound == 2
\* number of step components (validation or result) mounted in one session
MaxMounts == 2

(***************************************************************************)
(* Value domains.                                                          *)
(***************************************************************************)
\* JavaScript undefined
Undefined == "undefined"
\* user identifiers the operator can address
Users == {"u1", "u2"}
\* task identifiers: the backend hands out a fresh one per task, here the
\* number of the step component that polls the task
Tasks == 1..MaxMounts
NoTask == 0
\* history identifiers the backend hands out
Histories == {"h1"}
\* repository identifiers
Repositories == {"r1"}
\* BulkProcessingStatus.status
BulkStatuses == {"PENDING", "STARTED", "SUCCESS", "FAILURE"}
\* what status.value?.status can be after a poll: a status, or undefined when
\* the status request failed
PollResults == BulkStatuses \cup {Undefined}
\* error-row counts a validation report can carry
ErrorRows == {0, 1}
\* temporary file identifiers a validation task reports (tempFileId)
TempFiles == {"f1"}

(***************************************************************************)
(* Upload form: file-format validation (BulkUploadStep.vue).               *)
(* A file name is a sequence of characters, so that toLowerCase and        *)
(* endsWith are computed rather than assumed.                              *)
(***************************************************************************)
ToLowerChar(c) ==
  CASE c = "A" -> "a" [] c = "C" -> "c" [] c = "S" -> "s" [] c = "V" -> "v"
    [] c = "T" -> "t" [] c = "X" -> "x" [] c = "L" -> "l" [] OTHER -> c

ToLowerCase(s) == [i \in 1..Len(s) |-> ToLowerChar(s[i])]

EndsWith(s, suffix) ==
  /\ Len(suffix) <= Len(s)
  /\ SubSeq(s, Len(s) - Len(suffix) + 1, Len(s)) = suffix

allowedExtensions ==
  { <<".", "c", "s", "v">>, <<".", "t", "s", "v">>, <<".", "x", "l", "s", "x">> }

allowedMimeTypes ==
  { "text/csv", "text/tab-separated-values", "application/vnd.ms-excel",
    "application/vnd.openxmlformats-officedocument.spreadsheetml.sheet" }

\* the files the operator can choose: valid by extension only (after
\* lower-casing), by MIME type only, by both, and by neither (a name shorter
\* than every extension, a name that holds an extension without ending in it)
Files ==
  { [name |-> <<"A", ".", "C", "S", "V">>, type |-> "text/plain"],
    [name |-> <<"a", ".", "t", "x", "t">>, type |-> "text/csv"],
    [name |-> <<"b", ".", "x", "l", "s", "x">>, type |-> "application/vnd.ms-excel"],
    [name |-> <<"c", "s", "v">>, type |-> ""],
    [name |-> <<"a", ".", "c", "s", "v", ".", "b">>, type |-> "text/plain"] }

\* state.file === undefined: no file chosen
NoFile == [name |-> << >>, type |-> Undefined]

FormStates == [repository : Repositories \cup {Undefined}, file : Files \cup {NoFile}]

InitialFormState == [repository |-> Undefined, file |-> NoFile]

hasValidExtension(file) ==
  \E extension \in allowedExtensions : EndsWith(ToLowerCase(file.name), extension)

hasValidMimeType(file) == file.type \in allowedMimeTypes

\* variant: the file is rejected when either check fails
validateFileFormatEitherCheck(st) ==
  (IF st.repository = Undefined THEN {"repository"} ELSE {})
  \cup (IF st.file # NoFile
          THEN (IF ~hasValidExtension(st.file) \/ ~hasValidMimeType(st.file)
                  THEN {"file"} ELSE {})
          ELSE {"file"})

\* the names of the form fields validateFileFormat reports an error for
validateFileFormat(st) ==
  (IF st.repository = Undefined THEN {"repository"} ELSE {})
  \cup (IF st.file # NoFile
          THEN (IF ~hasValidExtension(st.file) /\ ~hasValidMimeType(st.file)
                  THEN {"file"} ELSE {})
          ELSE {"file"})

(***************************************************************************)
(* Missing-user selection (useValidation of useBulk.ts).                   *)
(* A selection map is a Record<string, boolean>: per identifier the key is *)
(* absent, or holds true or false.                                         *)
(***************************************************************************)
Flags == {"absent", "true", "false"}
SelectionMaps == [Users -> Flags]
EmptySelection == [u \in Users |-> "absent"]

\* JavaScript truthiness of map[userId]
Truthy(map, userId) == map[userId] = "true"

\* `selection-missing-users:${taskId}` where taskId is the Ref object, not
\* its value: the template literal stringifies the Ref itself
selectionKey(taskIdValue) == <<"selection-missing-users:", "[object Object]">>

SelectionKeys == { selectionKey(t) : t \in Tasks \cup {NoTask} }

\* variant: the flag is set instead of negated
toggleSelectionSetTrue(map, userId) == [map EXCEPT ![userId] = "true"]

toggleSelection(map, userId) ==
  [map EXCEPT ![userId] = IF Truthy(map, userId) THEN "false" ELSE "true"]

selectedCount(map) == Cardinality({ u \in Users : map[u] = "true" })

\* Object.fromEntries(missingUsers.value.map(user => [user.id, true]))
selectAllMissingUsers(map, missing) ==
  [u \in Users |-> IF u \in missing THEN "true" ELSE "absent"]

deselectAllMissingUsers(map, missing) == EmptySelection

\* variant: the filter on the flag is missing
deleteUsersAllKeys(map) == { u \in Users : map[u] # "absent" }

\* Object.keys(selected).filter(key => selected[key])
deleteUsers(map) == { u \in Users : map[u] # "absent" /\ Truthy(map, u) }

(***************************************************************************)
(* State.                                                                  *)
(***************************************************************************)
VARIABLES
  route,               \* page shown: "bulk" (pages/bulk/index.vue) or "result"
  currentStep,         \* useBulk().currentStep of the bulk page
  taskId,              \* the bulk page's taskId ref (provided as 'taskId')
  selectedRepository,  \* the ref injected as 'selectedRepository'
  maxAttempts,         \* useAppConfig().polling.maxAttempts
  form,                \* the upload step's reactive form state
  uploadProcessing,    \* the upload step's isProcessing ref
  uploadInFlight,      \* the upload request is awaiting its response
  uploadRequest,       \* repository_id of the upload request in flight
  nuxtState,           \* useState store: key -> [set, value]
  mounts,              \* every step component mounted so far, in mount order
  isProcessing,        \* the validation step's isProcessing ref
  executeInFlight,     \* an execute request is awaiting its response
  executeRequest,      \* the execute request in flight
  executeFailedToast,  \* the validation step showed 'bulk.execute.failed'
  data                 \* the validation step's data ref (the fetched report)

bulkVars == << route, currentStep, taskId, selectedRepository, maxAttempts, form,
               uploadProcessing, uploadInFlight, uploadRequest, nuxtState, mounts,
               isProcessing, executeInFlight, executeRequest, executeFailedToast,
               data >>

pageVars == << route, currentStep, taskId >>
configVars == << selectedRepository, maxAttempts >>
uploadVars == << form, uploadProcessing, uploadInFlight, uploadRequest >>
executeVars == << isProcessing, executeInFlight, executeRequest, executeFailedToast >>
stepVars == << nuxtState, data >>

(***************************************************************************)
(* State of the other pages and composables.  Each is the state of one     *)
(* instance, kept in one record; the bulk workflow never writes them.      *)
(***************************************************************************)
\* history records shown in the history table
HistoryRecords == {"e1", "e2"}
\* largest number of toggles of one record's public status that is explored
MaxToggles == 2

\* search terms the operator can type into a select menu
Terms == {"", "a"}
\* largest page number a select menu asks for
MaxPage == 3
\* largest number of requests of one select menu awaiting their answer
MaxInFlight == 2
\* largest number of failed fetches of one select menu
MaxFailures == 1

\* largest offset, total, page size and selection count of a result table
MaxOffset == 3
MaxTotal == 4
MaxPageSize == 3
MaxSelected == 1
\* most toasts displayed at a time
MaxToasts == 2
\* the parent download events of the page
Parents == {"p1", "p2"}
\* most children the backend holds for a parent, the size of a page of
\* children (CHILD_PAGE_SIZE, scaled down) and most loads in flight
MaxChildren == 5
ChildPageSize == 2
MaxLoads == 2
\* children_count of a parent whose payload has none
NoCount == -1
\* most actions run on the auth store by itself
MaxCalls == 3
\* the statuses a failed fetch answers with
Statuses == {400, 401, 403, 404, 409, 500, 502, 503}

VARIABLES
  history,             \* the history page (pages/history/index.vue, useHistory)
  menu,                \* one useSelectMenuInfiniteScroll instance (forms.ts)
  pager,               \* one result table's page information (makePageInfo)
  session,             \* the route, the auth store and the displayed toasts
  downloads,           \* the download groups of the history page and their loads
  authStore,           \* the auth store taken by itself, with the actions run on it
  call                 \* one use of executeBulkUpdate: its refs and what it did

\* the history page before any action: no request in flight, no error;
\* public is set per row by the backend's listing
HistoryIdle ==
  [public |-> [e \in HistoryRecords |-> FALSE], requests |-> << >>,
   error |-> Undefined,
   initial |-> [e \in HistoryRecords |-> FALSE],
   toggles |-> [e \in HistoryRecords |-> 0],
   overlapped |-> [e \in HistoryRecords |-> FALSE],
   failed |-> [e \in HistoryRecords |-> FALSE]]

\* a select menu after setup: nothing fetched (immediate: false), no item.
\* requests holds the fetches in flight, each with the query it was sent with
\* and whether a later execute() has cancelled it; failed records that a
\* fetch failed since the search term last changed, failures how many did.
MenuIdle ==
  [page |-> 1, hasMore |-> TRUE, searchTerm |-> "", searchTermDebounced |-> "",
   items |-> << >>, status |-> "idle", open |-> FALSE, requests |-> << >>,
   failed |-> FALSE, failures |-> 0]

\* a result table before its result is loaded: result.value is undefined
PagerIdle ==
  [composable |-> "bulk", result |-> [loaded |-> FALSE, offset |-> 0, total |-> 0],
   pageSize |-> 1, selectedCount |-> 0, pageInfo |-> << >>]

\* a route's query without parameters: an absent parameter is the empty text
NoQuery == [q |-> << >>, next |-> << >>]

\* no fetch error was handled since the last other step
NotHandled == [handler |-> "none", status |-> 0, route |-> << >>, toasts |-> << >>]

\* no location: no redirect is pending
NoLocation == [path |-> << >>, query |-> NoQuery]

\* no navigation was guarded since the last other step
NotGuarded ==
  [to |-> NoLocation, from |-> NoLocation, checked |-> FALSE, outcome |-> "none",
   target |-> NoLocation]

\* the application as it starts, on the login page: the auth store's initial
\* state, no toast, no error handled, no navigation under way
SessionIdle ==
  [route |-> [path |-> << "/", "login" >>, query |-> NoQuery],
   user |-> Undefined, isAuthenticated |-> FALSE, authChecked |-> FALSE,
   toasts |-> << >>, last |-> NotHandled, redirect |-> NoLocation, nav |-> NotGuarded]

\* the download tab with no parent loaded
DownloadsIdle ==
  [stored |-> [p \in Parents |-> 0],
   groups |-> [p \in Parents |->
                 [children_count |-> 0, children |-> << >>, hasMoreChildren |-> FALSE]],
   requests |-> << >>]

\* useAuthStore's state(): _isAuthenticated false, _authChecked false, no user
StoreIdle ==
  [user |-> Undefined, isAuthenticated |-> FALSE, authChecked |-> FALSE,
   calls |-> << >>]

composableVars == << history, menu, pager, session, downloads, authStore, call >>

vars == << bulkVars, composableVars >>

(***************************************************************************)
(* A mounted step component and its polling run.                           *)
(*   pc: "setup"   result step: the awaited useFetch of setup is in flight *)
(*       "await"   a status request of the loop is in flight               *)
(*       "interim" result step: fetchUploadResult is in flight             *)
(*       "sleep"   the interval timer is running                           *)
(*       "report"  validation step: fetchValidationResults is in flight    *)
(*       "done"    the onMounted callback has returned                     *)
(*   requests, nonTerminal, terminal and toasts record what the run did:   *)
(*   status requests sent, polls answered with a non-terminal status, the  *)
(*   terminal status a poll returned, the error messages the run showed.   *)
(*   repository: the repository of the upload that created the task.       *)
(*   tempFileId: status.value?.tempFileId of the latest validation status. *)
(*   uploadResult: where the result step's uploadResult comes from:        *)
(*   undefined (never assigned) or "interim" (a fetch made after a poll    *)
(*   that returned a non-terminal status).                                 *)
(*   interims: how many interim fetches have been stored in uploadResult.  *)
(***************************************************************************)
NoData == [loaded |-> FALSE, error |-> 0]

Toast(m, message) == [m EXCEPT !.toasts = @ \cup {message}]

AfterLoop(m) == [m EXCEPT !.pc = IF m.kind = "validate" THEN "report" ELSE "done"]

\* the loop condition index < maxAttempts; inside the loop execute() sends a
\* status request at once, after the loop the timeout message is shown
LoopHead(m, limit) ==
  IF m.index < limit
    THEN [m EXCEPT !.pc = "await", !.requests = @ + 1]
    ELSE AfterLoop(Toast(m, "timeout"))

\* BulkValidationStep setup: useValidation, the lazy useFetch of the status
\* (its request leaves before mount), then onMounted starts the loop
NewValidationStep(task, limit) ==
  LoopHead([kind |-> "validate", task |-> task, selKey |-> selectionKey(task),
            pc |-> "setup", index |-> 0, requests |-> 1, nonTerminal |-> 0,
            terminal |-> "none", toasts |-> {}, mounted |-> TRUE,
            missingUsers |-> {}, summaryError |-> 0,
            repository |-> Undefined, tempFileId |-> Undefined,
            uploadResult |-> Undefined, interims |-> 0], limit)

\* BulkResultStep setup: the awaited useFetch of the status
NewResultStep(task) ==
  [kind |-> "result", task |-> task, selKey |-> selectionKey(task),
   pc |-> "setup", index |-> 0, requests |-> 1, nonTerminal |-> 0,
   terminal |-> "none", toasts |-> {}, mounted |-> TRUE,
   missingUsers |-> {}, summaryError |-> 0,
   repository |-> Undefined, tempFileId |-> Undefined,
   uploadResult |-> Undefined, interims |-> 0]

Cur == Len(mounts)
ValidationMounted ==
  /\ route = "bulk" /\ currentStep = "validate"
  /\ Cur > 0 /\ mounts[Cur].kind = "validate" /\ mounts[Cur].mounted
ResultMounted ==
  /\ route = "result"
  /\ Cur > 0 /\ mounts[Cur].kind = "result" /\ mounts[Cur].mounted
UploadMounted == route = "bulk" /\ currentStep = "upload"

\* useState(key, () => ({})): the stored map, created empty on first use
useState(store, key) ==
  IF store[key].set THEN store
  ELSE [store EXCEPT ![key] = [set |-> TRUE, value |-> EmptySelection]]

\* the current validation step's selectedMissingUsers
selectedMissingUsers == nuxtState[mounts[Cur].selKey].value

NoExecuteRequest ==
  [taskId |-> NoTask, tempFileId |-> Undefined, repositoryId |-> Undefined,
   deleteUsers |-> {}]

\* useValidation called with both refs undefined; executeBulkUpdate not called
CallIdle ==
  [taskId |-> NoTask, selectedRepository |-> Undefined,
   selectedMissingUsers |-> EmptySelection, outcome |-> "none",
   body |-> NoExecuteRequest]

BulkInit ==
  /\ route = "bulk"
  /\ currentStep = "upload"
  /\ taskId = NoTask
  /\ selectedRepository \in Repositories \cup {Undefined}
  /\ maxAttempts \in 1..MaxAttemptsBound
  /\ form = InitialFormState
  /\ uploadProcessing = FALSE
  /\ uploadInFlight = FALSE
  /\ uploadRequest = Undefined
  /\ nuxtState = [k \in SelectionKeys |-> [set |-> FALSE, value |-> EmptySelection]]
  /\ mounts = << >>
  /\ isProcessing = FALSE
  /\ executeInFlight = FALSE
  /\ executeRequest = NoExecuteRequest
  /\ executeFailedToast = FALSE
  /\ data = NoData

\* the session starts on the bulk page; the other pages are idle
Init ==
  /\ BulkInit
  /\ history = HistoryIdle
  /\ menu = MenuIdle
  /\ pager = PagerIdle
  /\ session = SessionIdle
  /\ downloads = DownloadsIdle
  /\ authStore = StoreIdle
  /\ call = CallIdle

\* the bulk page before any action, for the specifications of the other pages
BulkIdle ==
  /\ BulkInit
  /\ selectedRepository = Undefined
  /\ maxAttempts = 1

(***************************************************************************)
(* Upload step (BulkUploadStep.vue) and the page's onValidateComplete.     *)
(***************************************************************************)
\* v-model of the repository select menu
SetRepository(r) ==
  /\ UploadMounted
  /\ form.repository # r
  /\ form' = [form EXCEPT !.repository = r]
  /\ UNCHANGED << pageVars, configVars, uploadProcessing, uploadInFlight,
                  uploadRequest, stepVars, mounts, executeVars >>
  /\ UNCHANGED composableVars

\* v-model of the file input
SetFile(f) ==
  /\ UploadMounted
  /\ form.file # f
  /\ form' = [form EXCEPT !.file = f]
  /\ UNCHANGED << pageVars, configVars, uploadProcessing, uploadInFlight,
                  uploadRequest, stepVars, mounts, executeVars >>
  /\ UNCHANGED composableVars

\* the form's submit: UForm runs :validate and calls @submit only when it
\* returns no error; handleNext then posts the form
UploadHandleNext ==
  /\ UploadMounted
  /\ ~uploadProcessing
  /\ validateFileFormat(form) = {}
  /\ uploadProcessing' = TRUE
  /\ uploadInFlight' = TRUE
  /\ uploadRequest' = form.repository
  /\ UNCHANGED << pageVars, configVars, form, stepVars, mounts, executeVars >>
  /\ UNCHANGED composableVars

\* the upload answers with a task identifier: emit('next', taskId), the page's
\* onValidateComplete, and the validation step replaces the upload step
UploadResponseTask(t) ==
  /\ UploadMounted
  /\ uploadInFlight
  /\ Len(mounts) < MaxMounts
  /\ t = Len(mounts) + 1
  /\ taskId' = t
  /\ currentStep' = "validate"
  /\ nuxtState' = useState(nuxtState, selectionKey(t))
  /\ mounts' = Append(mounts, [NewValidationStep(t, maxAttempts)
                                 EXCEPT !.repository = uploadRequest])
  /\ form' = InitialFormState
  /\ uploadProcessing' = FALSE
  /\ uploadInFlight' = FALSE
  /\ uploadRequest' = Undefined
  /\ isProcessing' = FALSE
  /\ executeFailedToast' = FALSE
  /\ data' = NoData
  /\ UNCHANGED << route, configVars, executeInFlight, executeRequest >>
  /\ UNCHANGED composableVars

\* the upload fails, or answers without a task identifier: nothing is emitted
UploadResponseNoTask ==
  /\ UploadMounted
  /\ uploadInFlight
  /\ uploadInFlight' = FALSE
  /\ uploadRequest' = Undefined
  /\ UNCHANGED << pageVars, configVars, form, uploadProcessing, stepVars,
                  mounts, executeVars >>
  /\ UNCHANGED composableVars

(***************************************************************************)
(* Validation step (BulkValidationStep.vue): selection handlers.           *)
(***************************************************************************)
SetSelection(map) ==
  /\ nuxtState' = [nuxtState EXCEPT ![mounts[Cur].selKey].value = map]
  /\ UNCHANGED << pageVars, configVars, uploadVars, mounts, executeVars, data >>
  /\ UNCHANGED composableVars

ToggleSelection(userId) ==
  /\ ValidationMounted
  /\ SetSelection(toggleSelection(selectedMissingUsers, userId))

SelectAllMissingUsers ==
  /\ ValidationMounted
  /\ SetSelection(selectAllMissingUsers(selectedMissingUsers, mounts[Cur].missingUsers))

DeselectAllMissingUsers ==
  /\ ValidationMounted
  /\ SetSelection(deselectAllMissingUsers(selectedMissingUsers, mounts[Cur].missingUsers))

(***************************************************************************)
(* Validation step: confirmation (handleNext, executeBulkUpdate) and the   *)
(* page's onUploadComplete and goBackToUpload.                             *)
(***************************************************************************)
\* computed(() => summary.value.error === 0)
canProceed(summaryError) == summaryError = 0

\* !taskId || !selectedRepository.value, where taskId is the Ref object (an
\* object is never falsy) and selectedRepository.value a string or undefined
missingRequiredData(taskIdValue, repository) == repository = Undefined

\* const temporaryFileId = ref(undefined): nothing assigns it
temporaryFileId == Undefined

\* the body of the POST /api/bulk/execute request
executeBody(taskIdValue, repository, map) ==
  [taskId |-> taskIdValue, tempFileId |-> temporaryFileId,
   repositoryId |-> repository, deleteUsers |-> deleteUsers(map)]

ValidationHandleNext ==
  /\ ValidationMounted
  /\ ~isProcessing
  /\ IF ~canProceed(mounts[Cur].summaryError)
       THEN UNCHANGED executeVars
       ELSE IF missingRequiredData(taskId, selectedRepository)
         THEN /\ executeFailedToast' = TRUE
              /\ UNCHANGED << isProcessing, executeInFlight, executeRequest >>
         ELSE /\ isProcessing' = TRUE
              /\ executeInFlight' = TRUE
              /\ executeRequest' = executeBody(taskId, selectedRepository,
                                               selectedMissingUsers)
              /\ UNCHANGED executeFailedToast
  /\ UNCHANGED << pageVars, configVars, uploadVars, stepVars, mounts >>
  /\ UNCHANGED composableVars

\* the execute request answers with a history identifier: emit('next'), the
\* page's onUploadComplete navigates to the result page, which mounts the
\* result step; the bulk page and its validation step are torn down
ExecuteResponseHistory(t, h) ==
  /\ ValidationMounted
  /\ executeInFlight
  /\ Len(mounts) < MaxMounts
  /\ t = Len(mounts) + 1
  /\ route' = "result"
  /\ currentStep' = "upload"
  /\ taskId' = NoTask
  /\ mounts' = Append([mounts EXCEPT ![Cur].mounted = FALSE], NewResultStep(t))
  /\ isProcessing' = FALSE
  /\ executeInFlight' = FALSE
  /\ executeRequest' = NoExecuteRequest
  /\ executeFailedToast' = FALSE
  /\ data' = NoData
  /\ UNCHANGED << configVars, uploadVars, nuxtState >>
  /\ UNCHANGED composableVars

\* the execute request fails (handleFetchError) or answers without a history
\* identifier: nothing is emitted
ExecuteResponseNoHistory ==
  /\ ValidationMounted
  /\ executeInFlight
  /\ isProcessing' = FALSE
  /\ executeInFlight' = FALSE
  /\ executeRequest' = NoExecuteRequest
  /\ UNCHANGED << pageVars, configVars, uploadVars, stepVars, mounts,
                  executeFailedToast >>
  /\ UNCHANGED composableVars

\* handlePrevious emits 'prev'; the page shows the upload step again
goBackToUpload ==
  /\ ValidationMounted
  /\ ~isProcessing
  /\ currentStep' = "upload"
  /\ mounts' = [mounts EXCEPT ![Cur].mounted = FALSE]
  /\ form' = InitialFormState
  /\ uploadProcessing' = FALSE
  /\ executeFailedToast' = FALSE
  /\ data' = NoData
  /\ UNCHANGED << route, taskId, configVars, uploadInFlight, uploadRequest,
                  nuxtState, isProcessing, executeInFlight, executeRequest >>
  /\ UNCHANGED composableVars

\* the operator leaves the result page for the bulk page
LeaveResult ==
  /\ ResultMounted
  /\ route' = "bulk"
  /\ mounts' = [mounts EXCEPT ![Cur].mounted = FALSE]
  /\ UNCHANGED << currentStep, taskId, configVars, uploadVars, stepVars, executeVars >>
  /\ UNCHANGED composableVars

(***************************************************************************)
(* Polling loops: pollValidationStatus and pollExecuteStatus.  A loop runs *)
(* on whether or not its component is still mounted: nothing in it looks   *)
(* at the component's life cycle.                                          *)
(***************************************************************************)
\* variant: the loop goes on after FAILURE
pollValidationStatusNoStop(m, st) ==
  IF st = "SUCCESS" THEN AfterLoop([m EXCEPT !.terminal = "SUCCESS"])
  ELSE IF st = "FAILURE"
    THEN [Toast([m EXCEPT !.terminal = "FAILURE"], "failed") EXCEPT !.pc = "sleep"]
    ELSE [m EXCEPT !.nonTerminal = @ + 1, !.pc = "sleep"]

\* after await execute(): the body of the validation loop for one poll result
pollValidationStatus(m, st) ==
  IF st = "SUCCESS" THEN AfterLoop([m EXCEPT !.terminal = "SUCCESS"])
  ELSE IF st = "FAILURE"
    THEN AfterLoop(Toast([m EXCEPT !.terminal = "FAILURE"], "failed"))
    ELSE [m EXCEPT !.nonTerminal = @ + 1, !.pc = "sleep"]

\* variant: the return after the failure message is missing
pollExecuteStatusNoReturn(m, st) ==
  IF st = "SUCCESS" THEN AfterLoop([m EXCEPT !.terminal = "SUCCESS"])
  ELSE IF st = "FAILURE"
    THEN [Toast([m EXCEPT !.terminal = "FAILURE"], "failed") EXCEPT !.pc = "interim"]
    ELSE [m EXCEPT !.nonTerminal = @ + 1, !.pc = "interim"]

\* variant: no interim fetch between two polls
pollExecuteStatusNoInterim(m, st) ==
  IF st = "SUCCESS" THEN AfterLoop([m EXCEPT !.terminal = "SUCCESS"])
  ELSE IF st = "FAILURE"
    THEN AfterLoop(Toast([m EXCEPT !.terminal = "FAILURE"], "failed"))
    ELSE [m EXCEPT !.nonTerminal = @ + 1, !.pc = "sleep"]

\* after await executeStatus(): the body of the execution loop
pollExecuteStatus(m, st) ==
  IF st = "SUCCESS" THEN AfterLoop([m EXCEPT !.terminal = "SUCCESS"])
  ELSE IF st = "FAILURE"
    THEN AfterLoop(Toast([m EXCEPT !.terminal = "FAILURE"], "failed"))
    ELSE [m EXCEPT !.nonTerminal = @ + 1, !.pc = "interim"]

\* the result step's awaited setup fetch answers; the component mounts and
\* onMounted starts the loop (a component torn down meanwhile never mounts)
SetupResponse(i, st) ==
  /\ mounts[i].pc = "setup"
  /\ mounts' = [mounts EXCEPT ![i] =
                  IF mounts[i].mounted THEN LoopHead(@, maxAttempts)
                  ELSE [@ EXCEPT !.pc = "done"]]
  /\ UNCHANGED << pageVars, configVars, uploadVars, stepVars, executeVars >>
  /\ UNCHANGED composableVars

\* the status request of the loop answers; a validation task that succeeded
\* reports its temporary file in the status
PollResponse(i, st) ==
  /\ mounts[i].pc = "await"
  /\ \E f \in TempFiles :
       mounts' = [mounts EXCEPT ![i] =
                    IF mounts[i].kind = "validate"
                      THEN [pollValidationStatus(@, st) EXCEPT
                              !.tempFileId = IF st = "SUCCESS" THEN f ELSE @]
                      ELSE pollExecuteStatus(@, st)]
  /\ UNCHANGED << pageVars, configVars, uploadVars, stepVars, executeVars >>
  /\ UNCHANGED composableVars

\* result step: the interim fetchUploadResult answers and its data is stored
\* in uploadResult
InterimResponse(i) ==
  /\ mounts[i].pc = "interim"
  /\ mounts' = [mounts EXCEPT ![i].pc = "sleep", ![i].uploadResult = "interim",
                               ![i].interims = @ + 1]
  /\ UNCHANGED << pageVars, configVars, uploadVars, stepVars, executeVars >>
  /\ UNCHANGED composableVars

\* the interval timer fires: index++, the loop condition, the next execute()
Timer(i) ==
  /\ mounts[i].pc = "sleep"
  /\ mounts' = [mounts EXCEPT ![i] =
                  LoopHead([@ EXCEPT !.index = @ + 1], maxAttempts)]
  /\ UNCHANGED << pageVars, configVars, uploadVars, stepVars, executeVars >>
  /\ UNCHANGED composableVars

\* validation step: fetchValidationResults answers with a report, which is
\* stored in data; summary, missingUsers and validationResults are not touched
ReportResponse(i, errorRows) ==
  /\ mounts[i].pc = "report"
  /\ mounts' = [mounts EXCEPT ![i].pc = "done"]
  /\ data' = IF i = Cur /\ mounts[i].mounted
               THEN [loaded |-> TRUE, error |-> errorRows] ELSE data
  /\ UNCHANGED << pageVars, configVars, uploadVars, nuxtState, executeVars >>
  /\ UNCHANGED composableVars

Next ==
  \/ \E r \in Repositories \cup {Undefined} : SetRepository(r)
  \/ \E f \in Files \cup {NoFile} : SetFile(f)
  \/ UploadHandleNext
  \/ \E t \in Tasks : UploadResponseTask(t)
  \/ UploadResponseNoTask
  \/ \E u \in Users : ToggleSelection(u)
  \/ SelectAllMissingUsers
  \/ DeselectAllMissingUsers
  \/ ValidationHandleNext
  \/ \E t \in Tasks, h \in Histories : ExecuteResponseHistory(t, h)
  \/ ExecuteResponseNoHistory
  \/ goBackToUpload
  \/ LeaveResult
  \/ \E i \in 1..Len(mounts), st \in PollResults : SetupResponse(i, st)
  \/ \E i \in 1..Len(mounts), st \in PollResults : PollResponse(i, st)
  \/ \E i \in 1..Len(mounts) : InterimResponse(i)
  \/ \E i \in 1..Len(mounts) : Timer(i)
  \/ \E i \in 1..Len(mounts), e \in ErrorRows : ReportResponse(i, e)

Spec == Init /\ [][Next]_vars

(***************************************************************************)
(* History page: the public status of a record (useHistory.ts,             *)
(* pages/history/index.vue).  A toggle reads the row's public flag, asks   *)
(* the backend to set the opposite and, when the answer arrives, stores    *)
(* the answer in the row.  Nothing keeps a second toggle from starting     *)
(* while the first awaits its answer.                                      *)
(* initial, toggles, overlapped and failed record the history of a record: *)
(* its flag when the page loaded, the toggles started for it, whether one  *)
(* started while another was in flight, whether one failed.                *)
(***************************************************************************)
RemoveAt(seq, k) == SubSeq(seq, 1, k - 1) \o SubSeq(seq, k + 1, Len(seq))

\* variant: the body asks for the current value
togglePublicStatusSame(id, currentPublic) == [id |-> id, public |-> currentPublic]

\* togglePublicStatus(id, currentPublic): the request PUT .../{id}/public-status
\* with body { public: !currentPublic }
togglePublicStatus(id, currentPublic) == [id |-> id, public |-> ~currentPublic]

\* a handler reads data.public and awaits togglePublicStatus
SendToggle(id, via) ==
  /\ history.toggles[id] < MaxToggles
  /\ history' =
       [history EXCEPT
          !.requests = Append(@, [body |-> togglePublicStatus(id, history.public[id]),
                                  via |-> via]),
          !.toggles[id] = @ + 1,
          !.overlapped[id] =
             @ \/ \E k \in 1..Len(history.requests) : history.requests[k].body.id = id]
  /\ UNCHANGED << bulkVars, menu, pager, session, downloads, authStore, call >>

\* onSelect of the row menu's first item (getActionItems, getDownloadActionItems)
onSelect(id) == SendToggle(id, "menu")

\* handleAction('toggle-public', row) of the history page
handleAction(id) == SendToggle(id, "page")

\* the backend answers with the value it was asked to set; both handlers store
\* a boolean answer in data.public
TogglePublicEchoed(k) ==
  LET request == history.requests[k] IN
    /\ history' = [history EXCEPT
                     !.public[request.body.id] = request.body.public,
                     !.requests = RemoveAt(@, k)]
    /\ UNCHANGED << bulkVars, menu, pager, session, downloads, authStore, call >>

\* variant: the flag is written before the answer and not restored on failure
TogglePublicFailedWritten(k) ==
  LET request == history.requests[k] IN
    /\ history' = [history EXCEPT
                     !.public[request.body.id] = request.body.public,
                     !.failed[request.body.id] = TRUE,
                     !.requests = RemoveAt(@, k)]
    /\ UNCHANGED << bulkVars, menu, pager, session, downloads, authStore, call >>

\* the request fails: $fetch throws; the page's handler stores a message in
\* error, the menu's handler has no catch; data.public is not written
TogglePublicFailed(k) ==
  LET request == history.requests[k] IN
    /\ history' = [history EXCEPT
                     !.error = IF request.via = "page" THEN "Failed to update status"
                               ELSE @,
                     !.failed[request.body.id] = TRUE,
                     !.requests = RemoveAt(@, k)]
    /\ UNCHANGED << bulkVars, menu, pager, session, downloads, authStore, call >>

HistoryInit ==
  /\ BulkIdle
  /\ menu = MenuIdle
  /\ pager = PagerIdle
  /\ session = SessionIdle
  /\ downloads = DownloadsIdle
  /\ authStore = StoreIdle
  /\ call = CallIdle
  /\ \E flags \in [HistoryRecords -> BOOLEAN] :
       history = [HistoryIdle EXCEPT !.public = flags, !.initial = flags]

HistoryNext ==
  \/ \E id \in HistoryRecords : onSelect(id)
  \/ \E id \in HistoryRecords : handleAction(id)
  \/ \E k \in 1..Len(history.requests) : TogglePublicEchoed(k)
  \/ \E k \in 1..Len(history.requests) : TogglePublicFailed(k)

SpecHistory == HistoryInit /\ [][HistoryNext]_vars

(***************************************************************************)
(* Select menu with search and infinite scroll                             *)
(* (useSelectMenuInfiniteScroll of forms.ts).  The backend holds, per      *)
(* search term, a list of results served one item a page.  useFetch is     *)
(* used with its default dedupe: execute() cancels the fetch in flight and *)
(* only the answer of the latest fetch is written to data.                 *)
(***************************************************************************)
\* number of results the backend holds for a search term
Total(q) == IF q = "" THEN 2 ELSE 1

\* the answer to GET url?q=...&p=...: SearchResult.resources and .total
searchResult(q, p) ==
  [resources |-> IF p <= Total(q) THEN << <<q, p>> >> ELSE << >>,
   total |-> Total(q)]

\* variant: the new page is appended whatever the page number
watchDataAlwaysAppend(m, newData) ==
  LET items == m.items \o newData.resources
  IN  [m EXCEPT !.items = items, !.hasMore = Len(items) < newData.total]

\* watch(data, ...): page 1 replaces the items, a later page is appended
watchData(m, newData) ==
  LET items == IF m.page = 1 THEN newData.resources
               ELSE m.items \o newData.resources
  IN  [m EXCEPT !.items = items, !.hasMore = Len(items) < newData.total]

\* execute(): the fetch for the current query leaves, the fetches in flight
\* are cancelled, status becomes 'pending'
execute(m) ==
  [m EXCEPT
     !.requests = Append([k \in 1..Len(@) |-> [@[k] EXCEPT !.cancelled = TRUE]],
                         [q |-> m.searchTermDebounced, p |-> m.page,
                          cancelled |-> FALSE]),
     !.status = "pending"]

\* hasMore.value && status.value !== 'pending'
canLoadMore(m) == m.hasMore /\ m.status # "pending"

\* the operator types: v-model:search-term
MenuType(term) ==
  /\ menu.searchTerm # term
  /\ menu' = [menu EXCEPT !.searchTerm = term]
  /\ UNCHANGED << bulkVars, history, pager, session, downloads, authStore, call >>

\* refDebounced delivers the typed term; watch(searchTermDebounced, ...)
MenuDebounced ==
  /\ menu.searchTermDebounced # menu.searchTerm
  /\ Len(menu.requests) < MaxInFlight
  /\ menu' = execute([menu EXCEPT !.searchTermDebounced = menu.searchTerm,
                                  !.page = 1, !.hasMore = TRUE, !.failed = FALSE])
  /\ UNCHANGED << bulkVars, history, pager, session, downloads, authStore, call >>

\* the menu opens: onOpen(true)
MenuOpen ==
  /\ ~menu.open
  /\ Len(menu.items) = 0 => Len(menu.requests) < MaxInFlight
  /\ menu' = IF Len(menu.items) = 0 THEN execute([menu EXCEPT !.open = TRUE])
             ELSE [menu EXCEPT !.open = TRUE]
  /\ UNCHANGED << bulkVars, history, pager, session, downloads, authStore, call >>

\* the menu closes: onOpen(false)
MenuClose ==
  /\ menu.open
  /\ menu' = [menu EXCEPT !.open = FALSE]
  /\ UNCHANGED << bulkVars, history, pager, session, downloads, authStore, call >>

\* the list is scrolled to its end: the callback of useInfiniteScroll
MenuScroll ==
  /\ menu.open
  /\ canLoadMore(menu)
  /\ menu.page < MaxPage
  /\ Len(menu.requests) < MaxInFlight
  /\ menu' = execute([menu EXCEPT !.page = @ + 1])
  /\ UNCHANGED << bulkVars, history, pager, session, downloads, authStore, call >>

\* a fetch is answered: the answer of a cancelled fetch is dropped, the answer
\* of the latest one is written to data and the watcher of data runs
MenuResponse(k) ==
  LET request == menu.requests[k]
      rest == [menu EXCEPT !.requests = RemoveAt(@, k)]
  IN  /\ menu' = IF request.cancelled THEN rest
                 ELSE watchData([rest EXCEPT !.status = "success"],
                                searchResult(request.q, request.p))
      /\ UNCHANGED << bulkVars, history, pager, session, downloads, authStore, call >>

\* the latest fetch fails: status becomes 'error', the items stay
MenuResponseError(k) ==
  /\ ~menu.requests[k].cancelled
  /\ menu.failures < MaxFailures
  /\ menu' = [menu EXCEPT !.requests = RemoveAt(@, k), !.status = "error",
                          !.failed = TRUE, !.failures = @ + 1]
  /\ UNCHANGED << bulkVars, history, pager, session, downloads, authStore, call >>

MenuInit ==
  /\ BulkIdle
  /\ history = HistoryIdle
  /\ menu = MenuIdle
  /\ pager = PagerIdle
  /\ session = SessionIdle
  /\ downloads = DownloadsIdle
  /\ authStore = StoreIdle
  /\ call = CallIdle

MenuNext ==
  \/ \E term \in Terms : MenuType(term)
  \/ MenuDebounced
  \/ MenuOpen
  \/ MenuClose
  \/ MenuScroll
  \/ \E k \in 1..Len(menu.requests) : MenuResponse(k)
  \/ \E k \in 1..Len(menu.requests) : MenuResponseError(k)

SpecMenu == MenuInit /\ [][MenuNext]_vars

(***************************************************************************)
(* Page information of a result table (makePageInfo of useBulk.ts,         *)
(* useHistory.ts and users.ts).  The text is kept as the sequence of the   *)
(* pieces the template literal joins.  pageInfo is a computed: it is       *)
(* evaluated again whenever the result, the page size or the selection     *)
(* changes.                                                                *)
(***************************************************************************)
\* variant: the end of the range is not capped by the total
pageRangeNoMin(result, size) ==
  LET start == IF result.loaded THEN result.offset ELSE 1
      total == IF result.loaded THEN result.total ELSE 0
  IN  [start |-> start, end |-> start + size, total |-> total]

\* start = result.value?.offset ?? 1, total = result.value?.total ?? 0,
\* end = Math.min(start + pageSize.value, total)
pageRange(result, size) ==
  LET start == IF result.loaded THEN result.offset ELSE 1
      total == IF result.loaded THEN result.total ELSE 0
      end == IF start + size <= total THEN start + size ELSE total
  IN  [start |-> start, end |-> end, total |-> total]

\* `${start} - ${end} / ${total}` (useBulk.ts, useHistory.ts)
makePageInfo(result, size) ==
  LET r == pageRange(result, size)
  IN  << ToString(r.start), " - ", ToString(r.end), " / ", ToString(r.total) >>

\* users.ts: the same text, followed by the selection count when it is positive
usersMakePageInfo(result, size, count) ==
  IF count > 0
    THEN makePageInfo(result, size) \o << " (", "table.selected", " ", ToString(count), ")" >>
    ELSE makePageInfo(result, size)

\* the computed's value for the pager's current inputs
pageInfo(p) ==
  IF p.composable = "users" THEN usersMakePageInfo(p.result, p.pageSize, p.selectedCount)
  ELSE makePageInfo(p.result, p.pageSize)

\* a result arrives with its offset and total
PagerLoad(offset, total) ==
  /\ pager' = [pager EXCEPT !.result = [loaded |-> TRUE, offset |-> offset, total |-> total],
                            !.pageInfo = pageInfo([pager EXCEPT
                               !.result = [loaded |-> TRUE, offset |-> offset,
                                           total |-> total]])]
  /\ UNCHANGED << bulkVars, history, menu, session, downloads, authStore, call >>

\* the page size changes (query.l)
PagerResize(size) ==
  /\ pager' = [pager EXCEPT !.pageSize = size,
                            !.pageInfo = pageInfo([pager EXCEPT !.pageSize = size])]
  /\ UNCHANGED << bulkVars, history, menu, session, downloads, authStore, call >>

\* rows are selected or unselected (selectedCount of users.ts)
PagerSelect(count) ==
  /\ pager.composable = "users"
  /\ pager' = [pager EXCEPT !.selectedCount = count,
                            !.pageInfo = pageInfo([pager EXCEPT !.selectedCount = count])]
  /\ UNCHANGED << bulkVars, history, menu, session, downloads, authStore, call >>

PagerInit ==
  /\ BulkIdle
  /\ history = HistoryIdle
  /\ menu = MenuIdle
  /\ session = SessionIdle
  /\ downloads = DownloadsIdle
  /\ authStore = StoreIdle
  /\ call = CallIdle
  /\ \E c \in {"bulk", "history", "users"} :
       pager = [PagerIdle EXCEPT !.composable = c,
                                 !.pageInfo = pageInfo([PagerIdle EXCEPT !.composable = c])]

PagerNext ==
  \/ \E offset \in 0..MaxOffset, total \in 0..MaxTotal : PagerLoad(offset, total)
  \/ \E size \in 1..MaxPageSize : PagerResize(size)
  \/ \E count \in 0..MaxSelected : PagerSelect(count)

SpecPager == PagerInit /\ [][PagerNext]_vars

(***************************************************************************)
(* Error handling and the auth session (errorHandling.ts, the              *)
(* createFetchErrorHandler of forms.ts, useAuth.ts, useAuthStore.ts).      *)
(* A path or a parameter value is the sequence of its pieces: "/users/"    *)
(* is << "/", "users", "/" >>.                                             *)
(***************************************************************************)
\* loginRoute: '/login' and publicRoutes: new Set(['/login'])
loginRoute == << "/", "login" >>

publicRoutes == { loginRoute }

\* the locations a page of the application is shown at
Locations ==
  { [path |-> p, query |-> [NoQuery EXCEPT !.q = q]] :
      p \in { << "/", "login" >>, << "/", "login", "/" >>, << "/", "users" >>,
              << "/", "users", "/" >>, << "/", "bulk" >> },
      q \in { << >>, << "a" >> } }

\* s.replace(/\/$/, '')
stripTrailingSlash(s) ==
  IF Len(s) > 0 /\ s[Len(s)] = "/" THEN SubSeq(s, 1, Len(s) - 1) ELSE s

\* encodeURIComponent: the reserved characters are percent-encoded
encodeURIComponent(s) ==
  [i \in 1..Len(s) |->
     CASE s[i] = "/" -> "%2F" [] s[i] = "?" -> "%3F" [] s[i] = "=" -> "%3D"
       [] s[i] = "&" -> "%26"
       [] s[i] = "%252F" -> "%25252F" [] s[i] = "%253F" -> "%25253F"
       [] s[i] = "%253D" -> "%25253D" [] s[i] = "%2526" -> "%252526"
       [] OTHER -> s[i]]

\* decodeURIComponent
decodeURIComponent(s) ==
  [i \in 1..Len(s) |->
     CASE s[i] = "%2F" -> "/" [] s[i] = "%3F" -> "?" [] s[i] = "%3D" -> "="
       [] s[i] = "%26" -> "&"
       [] s[i] = "%25252F" -> "%252F" [] s[i] = "%25253F" -> "%253F"
       [] s[i] = "%25253D" -> "%253D" [] s[i] = "%252526" -> "%2526"
       [] OTHER -> s[i]]

\* route.fullPath: the path followed by the query string; the router
\* percent-encodes the percent signs of a parameter value
fullPath(location) ==
  LET encodeQueryValue(s) ==
        [i \in 1..Len(s) |->
           CASE s[i] = "%2F" -> "%252F" [] s[i] = "%3F" -> "%253F"
             [] s[i] = "%3D" -> "%253D" [] s[i] = "%26" -> "%2526" [] OTHER -> s[i]]
      q == IF location.query.q = << >> THEN << >> ELSE << "q", "=" >> \o location.query.q
      n == IF location.query.next = << >> THEN << >>
           ELSE << "next", "=" >> \o encodeQueryValue(location.query.next)
      search == IF q = << >> THEN n ELSE IF n = << >> THEN q ELSE q \o << "&" >> \o n
  IN  IF search = << >> THEN location.path ELSE location.path \o << "?" >> \o search

\* publicRoutes.has(location.path.replace(/\/$/, ''))
isPublic(location) == stripTrailingSlash(location.path) \in publicRoutes

\* useAuthStore: setUser and unsetUser
setUser(s, user) ==
  [s EXCEPT !.user = user, !.isAuthenticated = (user # Undefined), !.authChecked = TRUE]

unsetUser(s) ==
  [s EXCEPT !.user = Undefined, !.isAuthenticated = FALSE, !.authChecked = TRUE]

\* checkout({ next }): unsetUser(), then navigateTo({ path: loginRoute,
\* query: next ? { next } : {} }); the login route is public, so the
\* navigation proceeds
checkout(s, next) ==
  [unsetUser(s) EXCEPT !.route =
     [path |-> loginRoute,
      query |-> [NoQuery EXCEPT !.next = next]]]

\* the toast of a status in errorHandling.ts: no case for 409 and 502
toastOf(status) ==
  CASE status = 400 -> "toast.error.bad-request"
    [] status = 401 -> "toast.error.unauthorized"
    [] status = 403 -> "toast.error.forbidden"
    [] status = 404 -> "toast.error.not-found"
    [] status = 503 -> "toast.error.service-unavailable"
    [] OTHER -> "toast.error.server"

\* the toast of a status in createFetchErrorHandler: no case for 409
toastOfForms(status) ==
  CASE status = 400 -> "toast.error.bad-request"
    [] status = 401 -> "toast.error.unauthorized"
    [] status = 403 -> "toast.error.forbidden"
    [] status = 404 -> "toast.error.not-found"
    [] status = 502 -> "toast.error.bad-gateway"
    [] status = 503 -> "toast.error.service-unavailable"
    [] OTHER -> "toast.error.server"

\* toast.add(toast)
toastAdd(s, toast) == [s EXCEPT !.toasts = Append(@, toast)]

\* variant: the 401 case never checks out
unauthorizedNoCheckout(s) == s

\* the 401 case after its toast: checkout unless the route is public
unauthorized(s) ==
  IF ~isPublic(s.route)
    THEN checkout(s, encodeURIComponent(stripTrailingSlash(fullPath(s.route))))
    ELSE s

\* handleFetchError of errorHandling.ts
handleFetchError(s, status) ==
  LET shown == toastAdd(s, [id |-> << "auto" >>, title |-> toastOf(status)])
  IN  IF status = 401 THEN unauthorized(shown) ELSE shown

\* the handler createFetchErrorHandler returns (forms.ts)
createFetchErrorHandler(s, status) ==
  LET errorId == << "error-", ToString(status) >>
      defaultId == << "error-", "default" >>
      title == toastOfForms(status)
      isDefault == title = "toast.error.server"
      displayed(id) == \E i \in 1..Len(s.toasts) : s.toasts[i].id = id
      shown == toastAdd(s, [id |-> IF isDefault THEN defaultId ELSE errorId,
                            title |-> title])
  IN  IF displayed(errorId) THEN s
      ELSE IF isDefault /\ displayed(defaultId) THEN s
      ELSE IF status = 401 THEN unauthorized(shown)
      ELSE shown

\* what a handling leaves behind for the properties
Handled(s, handler, status, after) ==
  [after EXCEPT !.last = [handler |-> handler, status |-> status, route |-> s.route,
                          toasts |-> s.toasts],
                !.nav = NotGuarded]

\* a fetch of the page fails with the status; onResponseError runs
HandleFetchError(status) ==
  /\ session.redirect = NoLocation
  /\ Len(session.toasts) < MaxToasts
  /\ session' = Handled(session, "errorHandling", status,
                        handleFetchError(session, status))
  /\ UNCHANGED << bulkVars, history, menu, pager, downloads, authStore, call >>

FetchErrorHandler(status) ==
  /\ session.redirect = NoLocation
  /\ Len(session.toasts) < MaxToasts
  /\ session' = Handled(session, "forms", status,
                        createFetchErrorHandler(session, status))
  /\ UNCHANGED << bulkVars, history, menu, pager, downloads, authStore, call >>

\* the oldest displayed toast closes
ToastClose ==
  /\ session.redirect = NoLocation
  /\ session.toasts # << >>
  /\ session' = [session EXCEPT !.toasts = Tail(@), !.last = NotHandled,
                                !.nav = NotGuarded]
  /\ UNCHANGED << bulkVars, history, menu, pager, downloads, authStore, call >>

\* loggedinRedirectRoute: '/repositories'
loggedinRedirectRoute == << "/", "repositories" >>

\* the destinations of a navigation: the pages, the root path, and the root
\* path carrying a page as next
Destinations ==
  Locations
    \cup { [path |-> << "/" >>, query |-> NoQuery] }
    \cup { [path |-> << "/" >>,
            query |-> [NoQuery EXCEPT
                         !.next = encodeURIComponent(stripTrailingSlash(fullPath(l)))]] :
            l \in { d \in Locations : d.query.q = << >> } }

\* the answers of GET /api/auth/check: a user with an eppn, an answer
\* without one, a failure
AuthChecks == {"user", "nouser", "error"}

\* the location navigateTo resolves a path with a query string to
resolve(text) ==
  LET marks == { i \in 1..Len(text) : text[i] = "?" }
      cut == IF marks = {} THEN Len(text) + 1
             ELSE CHOOSE i \in marks : \A j \in marks : i <= j
      search == SubSeq(text, cut + 1, Len(text))
  IN  [path |-> SubSeq(text, 1, cut - 1),
       query |-> [NoQuery EXCEPT
                    !.q = IF Len(search) > 2 /\ search[1] = "q" /\ search[2] = "="
                            THEN SubSeq(search, 3, Len(search)) ELSE << >>]]

\* what a guarded navigation leaves behind: the route when it proceeds, the
\* pending redirect when checkin returned a navigateTo
Guarded(s, from, to, checked, outcome, target) ==
  [s EXCEPT !.route = IF outcome = "proceed" THEN to ELSE @,
            !.redirect = IF outcome = "redirect" THEN target ELSE NoLocation,
            !.nav = [to |-> to, from |-> from, checked |-> checked,
                     outcome |-> outcome, target |-> target],
            !.last = NotHandled]

\* variant: a failing auth check keeps the store as it is
checkinKeepOnError(s, to, answer) ==
  LET next == encodeURIComponent(stripTrailingSlash(fullPath(to)))
      toPath == stripTrailingSlash(to.path)
      fromPath == stripTrailingSlash(s.route.path)
      check == ~s.authChecked \/ fromPath = loginRoute
      checked == IF ~check \/ answer = "error" THEN s
                 ELSE IF answer = "user" THEN setUser(s, "u1") ELSE unsetUser(s)
      nextTo == to.query.next
  IN  IF toPath \in publicRoutes THEN Guarded(s, s.route, to, FALSE, "proceed", to)
      ELSE Guarded(checked, s.route, to, check, "proceed", to)

\* checkin({ to, from }); answer is the answer of the auth check, should
\* checkin make one
checkin(s, to, answer) ==
  LET next == encodeURIComponent(stripTrailingSlash(fullPath(to)))
      toPath == stripTrailingSlash(to.path)
      fromPath == stripTrailingSlash(s.route.path)
      check == ~s.authChecked \/ fromPath = loginRoute
      checked == IF ~check THEN s
                 ELSE IF answer = "user" THEN setUser(s, "u1") ELSE unsetUser(s)
      nextTo == to.query.next
  IN  IF toPath \in publicRoutes THEN Guarded(s, s.route, to, FALSE, "proceed", to)
      ELSE IF checked.isAuthenticated
        THEN IF nextTo # << >> /\ nextTo \notin publicRoutes
               THEN Guarded(checked, s.route, to, check, "redirect",
                            resolve(decodeURIComponent(nextTo)))
             ELSE IF toPath = << >>
               THEN Guarded(checked, s.route, to, check, "redirect",
                            [path |-> loggedinRedirectRoute, query |-> NoQuery])
             ELSE Guarded(checked, s.route, to, check, "proceed", to)
      ELSE Guarded(checked, s.route, to, check, "redirect",
                   [path |-> loginRoute, query |-> [NoQuery EXCEPT !.next = next]])

\* a navigation runs the route middleware: the user's navigation to a
\* destination or, when checkin returned a navigateTo, the navigation to its
\* target, which the router starts at once; the answer matters only when
\* checkin makes the auth check
Checkin(to, answer) ==
  /\ IF session.redirect # NoLocation THEN to = session.redirect
       ELSE to \in Destinations /\ to # session.route
  /\ \/ answer = "user"
     \/ /\ ~isPublic(to)
        /\ ~session.authChecked \/ stripTrailingSlash(session.route.path) = loginRoute
  /\ session' = checkin(session, to, answer)
  /\ UNCHANGED << bulkVars, history, menu, pager, downloads, authStore, call >>

SessionInit ==
  /\ BulkIdle
  /\ history = HistoryIdle
  /\ menu = MenuIdle
  /\ pager = PagerIdle
  /\ session = SessionIdle
  /\ downloads = DownloadsIdle
  /\ authStore = StoreIdle
  /\ call = CallIdle

SessionNext ==
  \/ \E status \in Statuses : HandleFetchError(status)
  \/ \E status \in Statuses : FetchErrorHandler(status)
  \/ ToastClose
  \/ \E to \in Destinations \cup {session.redirect}, answer \in AuthChecks :
       Checkin(to, answer)

SpecSession == SessionInit /\ [][SessionNext]_vars

(***************************************************************************)
(* History page: the children of a parent download event (loadChildren of  *)
(* useHistory.ts, handleLoadMoreChildren of pages/history/index.vue, the   *)
(* expand slot of HistoryTable.vue).  The backend holds stored[p] children *)
(* of parent p, numbered from 1, and serves them in pages.  The "more"     *)
(* button is shown while hasMoreChildren holds and stays usable while a    *)
(* load is in flight.                                                      *)
(***************************************************************************)
\* the children of the parent on page p of size l
childrenOnPage(parentId, p, l) ==
  LET first == (p - 1) * l + 1
      last == IF p * l <= downloads.stored[parentId] THEN p * l
              ELSE downloads.stored[parentId]
  IN  [i \in 1..(IF last >= first THEN last - first + 1 ELSE 0) |->
         << parentId, first + i - 1 >>]

\* fetchDownloadHistory builds a group: children: [],
\* hasMoreChildren: (p.children_count ?? 0) > 0
newGroup(count) ==
  [children_count |-> count, children |-> << >>,
   hasMoreChildren |-> (IF count = NoCount THEN 0 ELSE count) > 0]

\* variant: the page is computed without the + 1
loadChildrenQueryFloor(parentId, offset, limit) ==
  [i |-> parentId, p |-> offset \div limit, l |-> limit]

\* the query of loadChildren: i: [parentId], p: Math.floor(offset / limit) + 1,
\* l: limit
loadChildrenQuery(parentId, offset, limit) ==
  [i |-> parentId, p |-> (offset \div limit) + 1, l |-> limit]

\* the rest of loadChildren once the payload is there:
\* group.children = [...group.children, ...items], then hasMoreChildren
loadChildrenStore(group, items) ==
  LET children == group.children \o items
      totalChildCount == IF group.children_count = NoCount THEN Len(children)
                         ELSE group.children_count
  IN  [group EXCEPT !.children = children,
                    !.hasMoreChildren = Len(children) < totalChildCount]

\* a click on the "more" button of the parent's expanded row:
\* $emit('loadMoreChildren', row.id, row._children.length), and
\* handleLoadMoreChildren calls loadChildren with CHILD_PAGE_SIZE
handleLoadMoreChildren(parentId) ==
  /\ downloads.groups[parentId].hasMoreChildren
  /\ Len(downloads.requests) < MaxLoads
  /\ downloads' =
       [downloads EXCEPT !.requests =
          Append(@, loadChildrenQuery(parentId, Len(downloads.groups[parentId].children),
                                      ChildPageSize))]
  /\ UNCHANGED << bulkVars, history, menu, pager, session, authStore, call >>

\* the backend answers a load with the page asked for
LoadChildrenResponse(k) ==
  LET query == downloads.requests[k] IN
    /\ downloads' =
         [downloads EXCEPT
            !.groups[query.i] = loadChildrenStore(@, childrenOnPage(query.i, query.p, query.l)),
            !.requests = RemoveAt(@, k)]
    /\ UNCHANGED << bulkVars, history, menu, pager, session, authStore, call >>

\* the load fails: $fetch throws and handleLoadMoreChildren rejects
LoadChildrenFailed(k) ==
  /\ downloads' = [downloads EXCEPT !.requests = RemoveAt(@, k)]
  /\ UNCHANGED << bulkVars, history, menu, pager, session, authStore, call >>

\* the download tab after fetchDownloadHistory: one group for each parent
ChildrenInit ==
  /\ BulkIdle
  /\ history = HistoryIdle
  /\ menu = MenuIdle
  /\ pager = PagerIdle
  /\ session = SessionIdle
  /\ authStore = StoreIdle
  /\ call = CallIdle
  /\ \E stored \in [Parents -> 0..MaxChildren],
        counted \in [Parents -> BOOLEAN] :
       downloads =
         [stored |-> stored,
          groups |-> [p \in Parents |->
                        newGroup(IF counted[p] THEN stored[p] ELSE NoCount)],
          requests |-> << >>]

ChildrenNext ==
  \/ \E parentId \in Parents : handleLoadMoreChildren(parentId)
  \/ \E k \in 1..Len(downloads.requests) : LoadChildrenResponse(k)
  \/ \E k \in 1..Len(downloads.requests) : LoadChildrenFailed(k)

SpecChildren == ChildrenInit /\ [][ChildrenNext]_vars

(***************************************************************************)
(* The auth store by itself (useAuthStore.ts): any caller may run any of   *)
(* its four actions.  calls records the actions run so far.                *)
(***************************************************************************)
\* setAuthenticated(status)
setAuthenticated(s, status) == [s EXCEPT !.isAuthenticated = status]

\* setAuthChecked(checked)
setAuthChecked(s, checked) == [s EXCEPT !.authChecked = checked]

Called(s, action) == [s EXCEPT !.calls = Append(@, action)]

StoreSetAuthenticated(status) ==
  /\ Len(authStore.calls) < MaxCalls
  /\ authStore' = Called(setAuthenticated(authStore, status), "setAuthenticated")
  /\ UNCHANGED << bulkVars, history, menu, pager, session, downloads, call >>

StoreSetUser(user) ==
  /\ Len(authStore.calls) < MaxCalls
  /\ authStore' = Called(setUser(authStore, user), "setUser")
  /\ UNCHANGED << bulkVars, history, menu, pager, session, downloads, call >>

StoreSetAuthChecked(checked) ==
  /\ Len(authStore.calls) < MaxCalls
  /\ authStore' = Called(setAuthChecked(authStore, checked), "setAuthChecked")
  /\ UNCHANGED << bulkVars, history, menu, pager, session, downloads, call >>

StoreUnsetUser ==
  /\ Len(authStore.calls) < MaxCalls
  /\ authStore' = Called(unsetUser(authStore), "unsetUser")
  /\ UNCHANGED << bulkVars, history, menu, pager, session, downloads, call >>

StoreInit ==
  /\ BulkIdle
  /\ history = HistoryIdle
  /\ menu = MenuIdle
  /\ pager = PagerIdle
  /\ session = SessionIdle
  /\ downloads = DownloadsIdle
  /\ authStore = StoreIdle
  /\ call = CallIdle

StoreNext ==
  \/ \E status \in BOOLEAN : StoreSetAuthenticated(status)
  \/ \E user \in Users \cup {Undefined} : StoreSetUser(user)
  \/ \E checked \in BOOLEAN : StoreSetAuthChecked(checked)
  \/ StoreUnsetUser

SpecStore == StoreInit /\ [][StoreNext]_vars

(***************************************************************************)
(* executeBulkUpdate by itself (useValidation of useBulk.ts): the refs     *)
(* taskId and selectedRepository are parameters of the composable, each    *)
(* holding a value or undefined.                                           *)
(***************************************************************************)
\* executeBulkUpdate(url): throws 'Missing required data' or posts the body
executeBulkUpdate(c) ==
  IF missingRequiredData(c.taskId, c.selectedRepository)
    THEN [c EXCEPT !.outcome = "Missing required data"]
    ELSE [c EXCEPT !.outcome = "sent",
                   !.body = executeBody(c.taskId, c.selectedRepository,
                                        c.selectedMissingUsers)]

\* the caller assigns the refs it passed to useValidation
ProvideRefs(task, repository) ==
  /\ << task, repository >> # << call.taskId, call.selectedRepository >>
  /\ call' = [call EXCEPT !.taskId = task, !.selectedRepository = repository,
                          !.outcome = "none", !.body = NoExecuteRequest]
  /\ UNCHANGED << bulkVars, history, menu, pager, session, downloads, authStore >>

\* handleNext awaits executeBulkUpdate('/api/bulk/execute')
ExecuteBulkUpdate ==
  /\ call.outcome = "none"
  /\ call' = executeBulkUpdate(call)
  /\ UNCHANGED << bulkVars, history, menu, pager, session, downloads, authStore >>

ExecuteInit ==
  /\ BulkIdle
  /\ history = HistoryIdle
  /\ menu = MenuIdle
  /\ pager = PagerIdle
  /\ session = SessionIdle
  /\ downloads = DownloadsIdle
  /\ authStore = StoreIdle
  /\ \E map \in SelectionMaps : call = [CallIdle EXCEPT !.selectedMissingUsers = map]

ExecuteNext ==
  \/ \E task \in Tasks \cup {NoTask}, repository \in Repositories \cup {Undefined} :
       ProvideRefs(task, repository)
  \/ ExecuteBulkUpdate

SpecExecute == ExecuteInit /\ [][ExecuteNext]_vars

(***************************************************************************)
(* Properties.                                                             *)
(***************************************************************************)
\* an execute request leaves in this step
ExecuteSent == executeInFlight' /\ ~executeInFlight
\* an upload request leaves in this step
UploadSent == uploadInFlight' /\ ~uploadInFlight
\* the selection map of the current validation step after the step
selectedMissingUsersAfter == nuxtState'[mounts[Cur].selKey].value
\* the polling run of m has ended
LoopFinished(m) == m.pc \in {"report", "done"}

C2_DeleteUsersAreTheSelected ==
  [][ExecuteSent =>
       executeRequest'.deleteUsers
         = { u \in Users : selectedMissingUsers[u] = "true" }]_vars

\* C2 witness: a request in flight deletes u1 only, while u2 holds a false flag.
C2_Witness ==
  /\ ValidationMounted /\ executeInFlight
  /\ executeRequest.deleteUsers = {"u1"}
  /\ selectedMissingUsers["u2"] = "false"

\* C3: in both polling loops, once a poll has returned SUCCESS or FAILURE the
\* loop sends no further status request.
C3_NoRequestAfterTerminal ==
  [][\A i \in 1..Len(mounts) :
       mounts[i].terminal # "none" => mounts'[i].requests = mounts[i].requests]_vars

\* C3 witness: a validation run and an execution run that both ended on a
\* terminal status, one of them on FAILURE.
C3_Witness ==
  \E i, j \in 1..Len(mounts) :
    /\ mounts[i].kind = "validate" /\ mounts[i].terminal = "FAILURE"
    /\ mounts[j].kind = "result" /\ mounts[j].terminal = "SUCCESS"
    /\ mounts[i].pc = "done" /\ mounts[j].pc = "done"

\* C4: one mount of the validation step or of the result step sends at most
\* maxAttempts status requests, the request of the fetch's set-up included.
C4_RequestsWithinMaxAttempts ==
  \A i \in 1..Len(mounts) : mounts[i].requests <= maxAttempts

\* C5: a polling run shows the timeout message exactly when it ended after
\* maxAttempts polls that all returned a non-terminal status, the failure
\* message exactly when a poll returned FAILURE, no message when a poll
\* returned SUCCESS, and never both messages.
C5_TimeoutXorFailure ==
  \A i \in 1..Len(mounts) :
    LET m == mounts[i] IN
      /\ "timeout" \in m.toasts
           <=> (LoopFinished(m) /\ m.terminal = "none" /\ m.nonTerminal = maxAttempts)
      /\ "failed" \in m.toasts <=> m.terminal = "FAILURE"
      /\ m.terminal = "SUCCESS" => m.toasts = {}
      /\ ~({"timeout", "failed"} \subseteq m.toasts)

\* C5 witness: one run ended on the timeout message, another on the failure
\* message.
C5_Witness ==
  \E i, j \in 1..Len(mounts) :
    /\ mounts[i].toasts = {"timeout"} /\ mounts[i].nonTerminal = maxAttempts
    /\ mounts[j].toasts = {"failed"} /\ mounts[j].kind = "result"

\* C6: after the teardown of a step its polling loop sends no status request
\* and shows no failure or timeout message.
C6_LoopStopsAtTeardown ==
  [][\A i \in 1..Len(mounts) :
       ~mounts[i].mounted =>
         /\ mounts'[i].requests = mounts[i].requests
         /\ mounts'[i].toasts = mounts[i].toasts]_vars

\* C7: toggleSelection(userId) flips the selection status of userId and leaves
\* every other identifier's entry as it was; a second toggle of the same
\* identifier restores the status.
C7_ToggleOnlyThatUser ==
  /\ [](ValidationMounted =>
          \A u \in Users :
            LET once == toggleSelection(selectedMissingUsers, u)
                twice == toggleSelection(once, u)
            IN  /\ Truthy(once, u) # Truthy(selectedMissingUsers, u)
                /\ Truthy(twice, u) = Truthy(selectedMissingUsers, u))
  /\ [][\A u \in Users :
          ToggleSelection(u) =>
            /\ Truthy(selectedMissingUsersAfter, u) # Truthy(selectedMissingUsers, u)
            /\ \A v \in Users \ {u} :
                 selectedMissingUsersAfter[v] = selectedMissingUsers[v]]_vars

\* C7 witness: u1 was toggled twice (its flag is false) and u2 is selected.
C7_Witness ==
  /\ ValidationMounted
  /\ selectedMissingUsers["u1"] = "false"
  /\ selectedMissingUsers["u2"] = "true"

NameHasAllowedExtension(name) ==
  \E ext \in allowedExtensions :
    /\ Len(name) >= Len(ext)
    /\ \A j \in 1..Len(ext) :
         ToLowerChar(name[Len(name) - Len(ext) + j]) = ext[j]

\* the form state has a repository and a file that passes one of the checks
FormAcceptable(st) ==
  /\ st.repository \in Repositories
  /\ st.file \in Files
  /\ NameHasAllowedExtension(st.file.name) \/ st.file.type \in allowedMimeTypes

\* C10: validateFileFormat reports a file error exactly when no file is chosen
\* or the file fails both the extension and the MIME check, a repository error
\* exactly when no repository is selected; the upload request is sent only for
\* a form state without error.
C10_UploadValidation ==
  /\ [](/\ "file" \in validateFileFormat(form)
            <=> \/ form.file = NoFile
                \/ /\ ~NameHasAllowedExtension(form.file.name)
                   /\ form.file.type \notin allowedMimeTypes
        /\ "repository" \in validateFileFormat(form) <=> form.repository = Undefined)
  /\ [][UploadSent => FormAcceptable(form)]_vars

\* C10 witness: the request left for a file whose upper-case name passes the
\* extension check only.
C10_Witness ==
  /\ uploadInFlight
  /\ form.repository = "r1"
  /\ form.file = [name |-> <<"A", ".", "C", "S", "V">>, type |-> "text/plain"]

C12_ResultFetchedAfterSuccess ==
  \A i \in 1..Len(mounts) :
    (mounts[i].kind = "result" /\ mounts[i].pc = "done"
       /\ mounts[i].terminal = "SUCCESS")
      => mounts[i].uploadResult \notin {Undefined, "interim"}

\* C17: after a mid-workflow error (a validation poll returned FAILURE, the
\* validation polling timed out, or the execute request failed) the current
\* step is 'upload': the validation step of the failed task is no longer
\* shown, so that nothing can be executed for it.
C17_ErrorReturnsToUpload ==
  /\ [](\A i \in 1..Len(mounts) :
          (mounts[i].kind = "validate" /\ mounts[i].toasts # {} /\ i = Cur
             /\ route = "bulk")
            => currentStep = "upload")
  /\ [][ExecuteResponseNoHistory => currentStep' = "upload"]_vars

\* C20: once a failed upload request has completed, the workflow is still in
\* the upload step, no task identifier was emitted and the upload step's
\* processing flag is false again.
C20_UploadFailureResetsProcessing ==
  [][UploadResponseNoTask =>
       /\ currentStep' = "upload" /\ taskId' = taskId
       /\ uploadProcessing' = FALSE]_vars

\* no toggle request of record id is in flight
NoToggleInFlight(id) ==
  \A k \in 1..Len(history.requests) : history.requests[k].body.id # id

\* C13 as stated: once two toggles of a record have been answered by the
\* echoing backend, the record's public flag is its original value.
C13_TwoTogglesRestore ==
  \A id \in HistoryRecords :
    (history.toggles[id] = 2 /\ NoToggleInFlight(id) /\ ~history.failed[id])
      => history.public[id] = history.initial[id]

\* C13 amended: when each toggle of a record started after the answer to the
\* one before it had been stored, the flag is the original value after an even
\* number of answered toggles and the opposite after an odd number; in
\* particular two such toggles restore it.
C13_SequentialTogglesRestore ==
  \A id \in HistoryRecords :
    (NoToggleInFlight(id) /\ ~history.failed[id] /\ ~history.overlapped[id])
      => (history.public[id] = history.initial[id] <=> history.toggles[id] % 2 = 0)

\* C13 witness: a record that was public, toggled twice in sequence, and one
\* that was private, toggled twice in sequence.
C13_Witness ==
  /\ history.initial["e1"] /\ ~history.initial["e2"]
  /\ \A id \in HistoryRecords :
       /\ history.toggles[id] = 2 /\ NoToggleInFlight(id)
       /\ ~history.failed[id] /\ ~history.overlapped[id]

\* the results of search term q up to page p, in order
RECURSIVE Expected(_, _)
Expected(q, p) ==
  IF p = 0 THEN << >> ELSE Expected(q, p - 1) \o searchResult(q, p).resources

\* C14: once the latest fetch has been answered (and no fetch failed since the
\* search term changed), the options are exactly the results for the latest
\* search term up to the current page, whatever fetches were superseded and in
\* whatever order their answers arrive.
C14_OptionsAreLatestResults ==
  (menu.status = "success" /\ ~menu.failed)
    => menu.items = Expected(menu.searchTermDebounced, menu.page)

\* C14 witness: the answer for the new term "a" has arrived and is shown while
\* the superseded fetch for the earlier term is still in flight.
C14_Witness ==
  /\ menu.status = "success" /\ menu.searchTermDebounced = "a"
  /\ menu.items = << <<"a", 1>> >>
  /\ \E k \in 1..Len(menu.requests) :
       menu.requests[k].q = "" /\ menu.requests[k].cancelled

\* C15: no trigger issues a fetch, or advances the page counter, while a fetch
\* of the menu is pending.
C15_NoFetchWhilePending ==
  [][(Len(menu'.requests) > Len(menu.requests) \/ menu'.page > menu.page)
       => menu.status # "pending"]_vars

\* C16: the page information shows start = o, end = min(o + s, t) and then the
\* total t, where o and t are the loaded result's offset and total, or 1 and 0
\* when no result is loaded, and s is the page size.
C16_PageInfoRange ==
  LET o == IF pager.result.loaded THEN pager.result.offset ELSE 1
      t == IF pager.result.loaded THEN pager.result.total ELSE 0
      s == pager.pageSize
  IN  \E end \in 0..(o + s) :
        /\ end <= o + s /\ end <= t /\ (end = o + s \/ end = t)
        /\ Len(pager.pageInfo) >= 5
        /\ SubSeq(pager.pageInfo, 1, 5)
             = << ToString(o), " - ", ToString(end), " / ", ToString(t) >>

\* C16 witness: a loaded result whose last page is cut by the total
\* ("2 - 4 / 4"), shown by the users table with a selection.
C16_Witness ==
  /\ pager.composable = "users" /\ pager.selectedCount = 1
  /\ pager.result = [loaded |-> TRUE, offset |-> 2, total |-> 4]
  /\ pager.pageSize = 3
  /\ SubSeq(pager.pageInfo, 1, 5) = << "2", " - ", "4", " / ", "4" >>

\* the toast the statuses have of their own, the generic one for the others
StatusSpecificToast(status) ==
  CASE status = 400 -> "toast.error.bad-request"
    [] status = 401 -> "toast.error.unauthorized"
    [] status = 403 -> "toast.error.forbidden"
    [] status = 404 -> "toast.error.not-found"
    [] status = 409 -> "toast.error.conflict"
    [] status = 502 -> "toast.error.bad-gateway"
    [] status = 503 -> "toast.error.service-unavailable"
    [] OTHER -> "toast.error.server"

\* C18: handling a failed response adds exactly one toast, the status's own
\* for 400, 401, 403, 404, 409, 502 and 503 and the generic server-error toast
\* for every other status.
C18_OneToastPerStatus ==
  session.last.handler # "none" =>
    /\ Len(session.toasts) = Len(session.last.toasts) + 1
    /\ SubSeq(session.toasts, 1, Len(session.last.toasts)) = session.last.toasts
    /\ session.toasts[Len(session.toasts)].title = StatusSpecificToast(session.last.status)

\* C19: after handleFetchError of errorHandling.ts handled a 401 on a route
\* that is not public, there is no current user, isAuthenticated is false,
\* authChecked is true and the route is the login route with next decoding to
\* the full path the response was handled at (without a trailing slash); on
\* a public route the unauthorized toast is shown and the route is unchanged.
C19_UnauthorizedChecksOut ==
  (session.last.handler = "errorHandling" /\ session.last.status = 401) =>
    /\ session.toasts = Append(session.last.toasts,
                               [id |-> << "auto" >>, title |-> "toast.error.unauthorized"])
    /\ ~isPublic(session.last.route) =>
         /\ session.user = Undefined
         /\ ~session.isAuthenticated
         /\ session.authChecked
         /\ session.route.path = loginRoute
         /\ session.route.query.q = << >>
         /\ decodeURIComponent(session.route.query.next)
              = stripTrailingSlash(fullPath(session.last.route))
    /\ isPublic(session.last.route) => session.route = session.last.route

\* C19 witness: a 401 handled on /users?q=a has signed the user out and led
\* to /login with next = %2Fusers%3Fq%3Da.
C19_Witness ==
  /\ session.last.handler = "errorHandling" /\ session.last.status = 401
  /\ session.last.route = [path |-> << "/", "users" >>,
                           query |-> [q |-> << "a" >>, next |-> << >>]]
  /\ session.route.path = loginRoute
  /\ session.route.query.next = << "%2F", "users", "%3F", "q", "%3D", "a" >>
  /\ session.user = Undefined /\ session.authChecked

C22_ReportOnlyAfterSuccess ==
  \A i \in 1..Len(mounts) :
    (mounts[i].kind = "validate" /\ mounts[i].pc = "report")
      => mounts[i].terminal = "SUCCESS"

\* C23: in the execution polling, every poll that returned a non-terminal
\* status is followed by one interim fetch whose data is stored in the
\* displayed result before the next status request leaves: while the fetch
\* is in flight one poll's fetch is outstanding, at every other point as
\* many interim results have been stored as polls returned a non-terminal
\* status.
C23_InterimFetchPerTick ==
  \A i \in 1..Len(mounts) :
    LET m == mounts[i] IN
      m.kind = "result" =>
        /\ m.interims = IF m.pc = "interim" THEN m.nonTerminal - 1 ELSE m.nonTerminal
        /\ m.interims > 0 => m.uploadResult = "interim"

\* C23 witness: an execution run whose two polls both returned a non-terminal
\* status has stored two interim results and sleeps before the loop ends.
C23_Witness ==
  \E i \in 1..Len(mounts) :
    /\ mounts[i].kind = "result" /\ mounts[i].pc = "sleep"
    /\ mounts[i].nonTerminal = 2 /\ mounts[i].interims = 2
    /\ mounts[i].uploadResult = "interim"

\* C24: the public flag of a record changes only in the step in which a
\* toggle request for that record is answered successfully, and then it
\* becomes the value the endpoint answered with while every other record
\* keeps its flag; a failing request changes no record's flag.
C24_ToggleWritesOnSuccessOnly ==
  [][/\ history'.public # history.public =>
          \E k \in 1..Len(history.requests) :
            /\ history'.requests = RemoveAt(history.requests, k)
            /\ history'.failed = history.failed
            /\ history'.public =
                 [history.public EXCEPT ![history.requests[k].body.id] =
                                           history.requests[k].body.public]
     /\ history'.failed # history.failed => history'.public = history.public]_vars

\* C24 witness: the toggle of e1 succeeded and changed e1's flag, the toggle
\* of e2 failed and e2 kept the flag it had when the page loaded.
C24_Witness ==
  /\ history.requests = << >>
  /\ history.public["e1"] # history.initial["e1"] /\ ~history.failed["e1"]
  /\ history.toggles["e2"] = 1 /\ history.failed["e2"]
  /\ history.public["e2"] = history.initial["e2"]

\* C25: a load for a parent showing k children asks for the page n of size
\* L = ChildPageSize with (n - 1) * L <= k < n * L, that is floor(k / L) + 1;
\* its answer is appended after the parent's children, hasMoreChildren
\* becomes true exactly when fewer children are loaded than children_count
\* says, and the groups of the other parents are unchanged.
C25_LoadChildrenPage ==
  [][/\ Len(downloads'.requests) > Len(downloads.requests) =>
          LET query == downloads'.requests[Len(downloads'.requests)]
              k == Len(downloads.groups[query.i].children)
          IN  /\ query.l = ChildPageSize
              /\ (query.p - 1) * ChildPageSize <= k /\ k < query.p * ChildPageSize
              /\ downloads'.groups = downloads.groups
     /\ downloads'.groups # downloads.groups =>
          \E j \in 1..Len(downloads.requests) :
            LET query == downloads.requests[j]
                before == downloads.groups[query.i]
                after == downloads'.groups[query.i]
            IN  /\ after.children
                     = before.children \o childrenOnPage(query.i, query.p, query.l)
                /\ before.children_count # NoCount =>
                     (after.hasMoreChildren
                        <=> Len(after.children) < before.children_count)
                /\ \A other \in Parents \ {query.i} :
                     downloads'.groups[other] = downloads.groups[other]]_vars

\* C25 witness: p1 shows its first two pages in order and a third page is
\* left to load.
C25_Witness ==
  /\ downloads.stored["p1"] = 5
  /\ downloads.groups["p1"].children
       = << << "p1", 1 >>, << "p1", 2 >>, << "p1", 3 >>, << "p1", 4 >> >>
  /\ downloads.groups["p1"].hasMoreChildren
  /\ downloads.requests = << >>

\* C28: the children list of a parent holds each child at most once.
C28_ChildrenAtMostOnce ==
  \A parentId \in Parents :
    LET children == downloads.groups[parentId].children IN
      \A a, b \in 1..Len(children) : children[a] = children[b] => a = b

C27_AuthenticatedIffUser ==
  authStore.isAuthenticated <=> authStore.user # Undefined

\* C29: for a loaded result with offset >= 1 the displayed range start - end
\* denotes at most one page of rows: end - start + 1 is at most the page
\* size, and start is at most end when the total is positive and the offset
\* is within the total.
C29_RangeWithinOnePage ==
  (pager.result.loaded /\ pager.result.offset >= 1) =>
    \A start, end \in 0..(MaxOffset + MaxPageSize + MaxTotal) :
      (pager.pageInfo[1] = ToString(start) /\ pager.pageInfo[3] = ToString(end)) =>
        /\ end - start + 1 <= pager.pageSize
        /\ (pager.result.total > 0 /\ pager.result.offset <= pager.result.total)
             => start <= end

\* C30: executeBulkUpdate fails with 'Missing required data' and sends
\* nothing whenever the task identifier or the selected repository is
\* undefined; it sends a request only when both are defined.
C30_MissingDataSendsNothing ==
  call.outcome # "none" =>
    /\ (call.taskId = NoTask \/ call.selectedRepository = Undefined)
         => (call.outcome = "Missing required data" /\ call.body = NoExecuteRequest)
    /\ call.outcome = "sent"
         => (call.taskId # NoTask /\ call.selectedRepository # Undefined)

=============================================================================
